---- MODULE Spec2Model ----
(***************************************************************************)
(* Model of vllm/model_executor/layers/rotary_embedding.py, class          *)
(* DynamicNTKScalingRotaryEmbeddingQwen: the cache state of one instance   *)
(* (_seq_len_cached, _ntk_alpha_cached, cos_sin_cache), the recompute      *)
(* policy _update_cos_sin_cache and the per-sample batch loop of forward.  *)
(*                                                                         *)
(* A cos/sin table is a deterministic function of its number of rows and   *)
(* of the effective base, which is base * alpha^(rotary_dim/(rotary_dim-2))*)
(* so a table is represented by the pair [rows, alpha] it was built from.  *)
(* Rows of the flat positions/query/key buffers are numbered 0..n-1 as in  *)
(* Python; a slice is the pair <<lo, hi>> of the half-open range [lo, hi). *)
(* Sequence lengths are positive.  The static classes RotaryEmbedding,      *)
(* LinearScalingRotaryEmbedding and DynamicNTKScalingRotaryEmbedding are   *)
(* modelled by their constructor and their forward; of their tables only   *)
(* the number of rows is modelled.  A float scaling_factor is counted in   *)
(* units of 1 / ScalingDen.                                                *)
(***************************************************************************)
EXTENDS Integers, Sequences, FiniteSets, TLC

\* ---- configuration of the instance (scaled down) ----
ConfigSeqLength == 4
MaxPositionEmbeddings == 4
\* ---- bounds on the calls the environment makes ----
MaxSeqLen == 9
MaxBatch == 2
MaxPad == 1
ConcMaxSeqLen == 5
\* ---- bounds on the configurations and on the calls of a static instance ----
MaxRotaryDim == 4
MaxScalingFactor == 4
MaxStaticTokens == 2
\* scaling_factor is counted in halves
ScalingDen == 2
\* ---- program constant: the floor of max(2 * max_seq_len, 16) ----
MinCacheLen == 16

Threads == {"t1", "t2"}

VARIABLES
    seq_len_cached,    \* self._seq_len_cached
    ntk_alpha_cached,  \* self._ntk_alpha_cached
    cos_sin_cache,     \* self.cos_sin_cache, as [rows, alpha]
    pc,                \* per call: position in forward / _update_cos_sin_cache
    input_metadata,    \* per call: [prompt_lens, context_lens]
    num_tokens,        \* per call: leading dimension of positions/query/key
    i,                 \* per call: loop index of the sample (1-based)
    prev,              \* per call: _prev
    query_list,        \* per call: slices appended so far (key_list is identical)
    cache,             \* per call: the local table built at lines 207-212
    kernel_call,       \* per call: arguments of the last rotary_embedding call
    out,               \* per call: rows of the returned query (torch.cat result)
    last_len,          \* seq_len of the sample whose iteration ran last
    config,            \* constructor arguments kept on the instance
    status,            \* "none" before __init__, then "built" or "failed"
    static_calls       \* rotary_embedding calls of the last static forward

shared == <<seq_len_cached, ntk_alpha_cached, cos_sin_cache>>
locals == <<input_metadata, num_tokens, i, prev, query_list, cache,
            kernel_call, out>>
vars == <<seq_len_cached, ntk_alpha_cached, cos_sin_cache, pc, input_metadata,
          num_tokens, i, prev, query_list, cache, kernel_call, out, last_len,
          config, status, static_calls>>
instance == <<config, status, static_calls>>

Max(a, b) == IF a >= b THEN a ELSE b
Min(a, b) == IF a <= b THEN a ELSE b

RECURSIVE Sum(_)
Sum(s) == IF s = <<>> THEN 0 ELSE Head(s) + Sum(Tail(s))

\* ---------------------------------------------------------------------
\* get_ntk_alpha
\* ---------------------------------------------------------------------
RECURSIVE CeilLog2UpStrict(_, _, _)
CeilLog2UpStrict(num, den, e) ==
    IF den * (2 ^ e) > num THEN e ELSE CeilLog2UpStrict(num, den, e + 1)

\* least e >= 1 with den * 2^e >= num, for num > den
RECURSIVE CeilLog2Up(_, _, _)
CeilLog2Up(num, den, e) ==
    IF den * (2 ^ e) >= num THEN e ELSE CeilLog2Up(num, den, e + 1)

\* greatest e >= 0 with num * 2^e <= den, for 0 < num <= den
RECURSIVE FloorLog2Down(_, _, _)
FloorLog2Down(num, den, e) ==
    IF num * (2 ^ (e + 1)) > den THEN e ELSE FloorLog2Down(num, den, e + 1)

\* math.ceil(math.log(num / den, 2)) for positive integers num, den
CeilLog2Ratio(num, den) ==
    IF num > den THEN CeilLog2Up(num, den, 1)
    ELSE 0 - FloorLog2Down(num, den, 0)

\* 2 ** k - 1; for k < 0 Python yields a negative fraction, which only
\* ever meets max(., 1): 0 stands for every value below 1
Pow2Minus1(k) == IF k >= 0 THEN (2 ^ k) - 1 ELSE 0

NtkAlpha(true_seq_len, config_seq_length) ==
    LET context_value_ceil == CeilLog2Ratio(true_seq_len, config_seq_length) + 1
        ntk_alpha == Pow2Minus1(context_value_ceil)
    IN  Max(ntk_alpha, 1)

get_ntk_alpha(true_seq_len) == NtkAlpha(true_seq_len, config.seq_length)

\* ---------------------------------------------------------------------
\* inputs
\* ---------------------------------------------------------------------
Batches(maxlen, maxbatch) ==
    UNION {[1..n -> 1..maxlen] : n \in 0..maxbatch}

\* prompt_lens only, context_lens only, neither, or both lists populated
\* (then describing the same samples)
Metadata(maxlen, maxbatch) ==
    {m \in [prompt_lens : Batches(maxlen, maxbatch),
            context_lens : Batches(maxlen, maxbatch)] :
        \/ Len(m.prompt_lens) = 0
        \/ Len(m.context_lens) = 0
        \/ m.context_lens = m.prompt_lens}

NoMetadata == [prompt_lens |-> <<>>, context_lens |-> <<>>]
NoCache == [rows |-> 0, alpha |-> 0]
NoCall == [seq_len |-> 0, lo |-> 0, hi |-> 0, rows |-> 0, alpha |-> 0]

\* ---------------------------------------------------------------------
\* forward: locals derived from the metadata
\* ---------------------------------------------------------------------
is_continue(t) == ~(Len(input_metadata[t].prompt_lens) > 0)

seq_lens(t) ==
    IF Len(input_metadata[t].prompt_lens) > 0
    THEN input_metadata[t].prompt_lens
    ELSE input_metadata[t].context_lens

batch_size(t) == Len(seq_lens(t))

\* the loop variable seq_len of the current sample
seq_len(t) == seq_lens(t)[i[t]]

\* number of rows the metadata declares: one per sample in decode,
\* seq_len per sample in prefill
DeclaredTokens(m) ==
    IF Len(m.prompt_lens) > 0 THEN Sum(m.prompt_lens) ELSE Len(m.context_lens)

start(t) == prev[t]

end(t) == IF is_continue(t) THEN start(t) + 1 ELSE start(t) + seq_len(t)

\* tensor[lo:hi] and tensor[lo:] on a tensor of n rows (Python clamps)
Slice(lo, hi, n) == <<Min(lo, n), Max(Min(lo, n), Min(hi, n))>>

SliceToEnd(lo, n) == <<Min(lo, n), n>>

CurSliceDeclared(t) == Slice(start(t), end(t), num_tokens[t])
CurSlice(t) ==
    IF i[t] # batch_size(t)
    THEN Slice(start(t), end(t), num_tokens[t])
    ELSE SliceToEnd(start(t), num_tokens[t])

\* the argument of self._update_cos_sin_cache(seq_len)
UpdateArgTokens(t) == CurSlice(t)[2] - CurSlice(t)[1]
UpdateArg(t) == seq_len(t)

\* ntk_alpha = self.get_ntk_alpha(max_seq_len)
ntk_alpha(t) == get_ntk_alpha(UpdateArg(t))

\* ---------------------------------------------------------------------
\* _update_cos_sin_cache: the pieces of the rebuild
\* ---------------------------------------------------------------------
LenExceedsNever(max_seq_len, cached) == FALSE
LenExceeds(max_seq_len, cached) == max_seq_len > cached

AlphaDiffersNever(alpha, cached) == FALSE
AlphaDiffers(alpha, cached) == alpha # cached

NewSeqLenCachedHalf(max_seq_len) == max_seq_len \div 2
NewSeqLenCachedNoFloor(max_seq_len) == 2 * max_seq_len
NewSeqLenCached(max_seq_len) == Max(2 * max_seq_len, MinCacheLen)

\* ---------------------------------------------------------------------
\* the four classes and their constructors
\* ---------------------------------------------------------------------
Base == "RotaryEmbedding"
Linear == "LinearScalingRotaryEmbedding"
Ntk == "DynamicNTKScalingRotaryEmbedding"
Qwen == "DynamicNTKScalingRotaryEmbeddingQwen"

StaticVariants == {Base, Linear, Ntk}

\* constructor arguments; scaling_factor only exists for Linear and Ntk,
\* seq_length only for Qwen (elsewhere they are held at 1.0 and 0)
Configs ==
    {c \in [variant : StaticVariants \cup {Qwen},
            rotary_dim : 1..MaxRotaryDim,
            max_position_embeddings : 0..MaxPositionEmbeddings,
            scaling_factor : 0..MaxScalingFactor,
            seq_length : 0..ConfigSeqLength] :
        /\ c.variant \in {Base, Qwen} => c.scaling_factor = ScalingDen
        /\ c.variant # Qwen => c.seq_length = 0}

NoConfig == [variant |-> "none", rotary_dim |-> 0,
             max_position_embeddings |-> 0, scaling_factor |-> 0,
             seq_length |-> 0]

\* the instance of the adaptive class the forward calls are made on
QwenConfig == [variant |-> Qwen, rotary_dim |-> MaxRotaryDim,
               max_position_embeddings |-> MaxPositionEmbeddings,
               scaling_factor |-> ScalingDen,
               seq_length |-> ConfigSeqLength]

\* number of elements of torch.arange(num / den) for num >= 0
ArangeLen(num, den) == (num + den - 1) \div den

\* rows of the table _compute_cos_sin_cache returns: Linear and Ntk
\* override it with max_len = max_position_embeddings * scaling_factor,
\* Qwen inherits the one of RotaryEmbedding
ComputeCacheRowsUnscaled(c) == c.max_position_embeddings
ComputeCacheRows(c) ==
    IF c.variant \in {Linear, Ntk}
    THEN ArangeLen(c.max_position_embeddings * c.scaling_factor, ScalingDen)
    ELSE c.max_position_embeddings

\* the only divisions of Python numbers made during construction are in
\* DynamicNTKScalingRotaryEmbedding._compute_cos_sin_cache: by
\* max_position_embeddings and by rotary_dim - 2 (ZeroDivisionError)
ConstructorRaises(c) ==
    /\ c.variant = Ntk
    /\ (c.max_position_embeddings = 0 \/ c.rotary_dim - 2 = 0)

\* __init__ of the class c.variant
Construct(c) ==
    /\ status = "none"
    /\ config' = c
    /\ IF ConstructorRaises(c)
       THEN /\ status' = "failed"
            /\ UNCHANGED shared
       ELSE /\ status' = "built"
            /\ seq_len_cached' = 0
            /\ ntk_alpha_cached' = IF c.variant = Qwen THEN 1 ELSE 0
            /\ cos_sin_cache' = [rows |-> ComputeCacheRows(c), alpha |-> 1]
    /\ UNCHANGED <<pc, locals, last_len, static_calls>>

\* before any constructor has run
InitNone ==
    /\ seq_len_cached = 0
    /\ ntk_alpha_cached = 0
    /\ cos_sin_cache = [rows |-> 0, alpha |-> 0]
    /\ pc = [t \in Threads |-> "idle"]
    /\ input_metadata = [t \in Threads |-> NoMetadata]
    /\ num_tokens = [t \in Threads |-> 0]
    /\ i = [t \in Threads |-> 0]
    /\ prev = [t \in Threads |-> 0]
    /\ query_list = [t \in Threads |-> <<>>]
    /\ cache = [t \in Threads |-> [rows |-> 0, alpha |-> 0]]
    /\ kernel_call = [t \in Threads |-> NoCall]
    /\ out = [t \in Threads |-> <<>>]
    /\ last_len = 0
    /\ config = NoConfig
    /\ status = "none"
    /\ static_calls = <<>>

\* ---------------------------------------------------------------------
\* state after __init__ of the adaptive instance QwenConfig
\* ---------------------------------------------------------------------
Init ==
    /\ config = QwenConfig
    /\ status = "built"
    /\ static_calls = <<>>
    /\ seq_len_cached = 0
    /\ ntk_alpha_cached = 1
    /\ cos_sin_cache = [rows |-> MaxPositionEmbeddings, alpha |-> 1]
    /\ pc = [t \in Threads |-> "idle"]
    /\ input_metadata = [t \in Threads |-> NoMetadata]
    /\ num_tokens = [t \in Threads |-> 0]
    /\ i = [t \in Threads |-> 0]
    /\ prev = [t \in Threads |-> 0]
    /\ query_list = [t \in Threads |-> <<>>]
    /\ cache = [t \in Threads |-> NoCache]
    /\ kernel_call = [t \in Threads |-> NoCall]
    /\ out = [t \in Threads |-> <<>>]
    /\ last_len = 0

\* ---------------------------------------------------------------------
\* forward
\* ---------------------------------------------------------------------
\* entry of forward up to the loop head
Forward(t, m, n) ==
    /\ UNCHANGED instance
    /\ pc[t] = "idle"
    /\ input_metadata' = [input_metadata EXCEPT ![t] = m]
    /\ num_tokens' = [num_tokens EXCEPT ![t] = n]
    /\ i' = [i EXCEPT ![t] = 1]
    /\ prev' = [prev EXCEPT ![t] = 0]
    /\ query_list' = [query_list EXCEPT ![t] = <<>>]
    /\ pc' = [pc EXCEPT ![t] =
                 IF Len(m.prompt_lens) = 0 /\ Len(m.context_lens) = 0
                 THEN "cat" ELSE "check_len"]
    /\ UNCHANGED <<shared, cache, kernel_call, out, last_len>>

\* get_ntk_alpha (a division by seq_length, ZeroDivisionError when it is 0)
\* and the first operand of the rebuild condition: reads self._seq_len_cached
CheckLen(t) ==
    /\ UNCHANGED instance
    /\ pc[t] = "check_len"
    /\ pc' = [pc EXCEPT ![t] =
                 IF config.seq_length = 0 THEN "raised"
                 ELSE IF LenExceeds(UpdateArg(t), seq_len_cached)
                 THEN "set_len" ELSE "check_alpha"]
    /\ UNCHANGED <<shared, locals, last_len>>

\* second operand of the rebuild condition: reads self._ntk_alpha_cached
CheckAlpha(t) ==
    /\ UNCHANGED instance
    /\ pc[t] = "check_alpha"
    /\ pc' = [pc EXCEPT ![t] =
                 IF AlphaDiffers(ntk_alpha(t), ntk_alpha_cached)
                 THEN "set_len" ELSE "kernel"]
    /\ UNCHANGED <<shared, locals, last_len>>

\* base = self.base * ntk_alpha ** (rotary_dim / (rotary_dim - 2)), a
\* ZeroDivisionError when rotary_dim is 2, then self._seq_len_cached = ...
SetLen(t) ==
    /\ UNCHANGED instance
    /\ pc[t] = "set_len"
    /\ IF config.rotary_dim - 2 = 0
       THEN /\ pc' = [pc EXCEPT ![t] = "raised"]
            /\ UNCHANGED seq_len_cached
       ELSE /\ pc' = [pc EXCEPT ![t] = "set_alpha"]
            /\ seq_len_cached' = NewSeqLenCached(UpdateArg(t))
    /\ UNCHANGED <<ntk_alpha_cached, cos_sin_cache, locals, last_len>>

SetAlphaSkipped(t) ==
    /\ UNCHANGED instance
    /\ pc[t] = "set_alpha"
    /\ pc' = [pc EXCEPT ![t] = "build"]
    /\ UNCHANGED <<shared, locals, last_len>>
SetAlpha(t) ==
    /\ UNCHANGED instance
    /\ pc[t] = "set_alpha"
    /\ ntk_alpha_cached' = ntk_alpha(t)
    /\ pc' = [pc EXCEPT ![t] = "build"]
    /\ UNCHANGED <<seq_len_cached, cos_sin_cache, locals, last_len>>

BuildFromArg(t) ==
    /\ UNCHANGED instance
    /\ pc[t] = "build"
    /\ cache' = [cache EXCEPT ![t] =
                    [rows |-> UpdateArg(t), alpha |-> ntk_alpha(t)]]
    /\ pc' = [pc EXCEPT ![t] = "publish"]
    /\ UNCHANGED <<shared, input_metadata, num_tokens, i, prev, query_list,
                   kernel_call, out, last_len>>

\* the table is built over arange(self._seq_len_cached) with the inv_freq
\* computed from the local ntk_alpha
Build(t) ==
    /\ UNCHANGED instance
    /\ pc[t] = "build"
    /\ cache' = [cache EXCEPT ![t] =
                    [rows |-> seq_len_cached, alpha |-> ntk_alpha(t)]]
    /\ pc' = [pc EXCEPT ![t] = "publish"]
    /\ UNCHANGED <<shared, input_metadata, num_tokens, i, prev, query_list,
                   kernel_call, out, last_len>>

Publish(t) ==
    /\ UNCHANGED instance
    /\ pc[t] = "publish"
    /\ cos_sin_cache' = cache[t]
    /\ cache' = [cache EXCEPT ![t] = NoCache]
    /\ pc' = [pc EXCEPT ![t] = "kernel"]
    /\ UNCHANGED <<seq_len_cached, ntk_alpha_cached, input_metadata,
                   num_tokens, i, prev, query_list, kernel_call, out, last_len>>

\* rotary_embedding on the sample's slice with the installed table, then
\* the appends and _prev = _end, up to the next loop head
Kernel(t) ==
    /\ UNCHANGED instance
    /\ pc[t] = "kernel"
    /\ kernel_call' = [kernel_call EXCEPT ![t] =
                          [seq_len |-> seq_len(t),
                           lo |-> CurSlice(t)[1], hi |-> CurSlice(t)[2],
                           rows |-> cos_sin_cache.rows,
                           alpha |-> cos_sin_cache.alpha]]
    /\ query_list' = [query_list EXCEPT ![t] = Append(@, CurSlice(t))]
    /\ prev' = [prev EXCEPT ![t] = end(t)]
    /\ i' = [i EXCEPT ![t] = @ + 1]
    /\ last_len' = seq_len(t)
    /\ pc' = [pc EXCEPT ![t] =
                 IF i[t] < batch_size(t) THEN "check_len" ELSE "cat"]
    /\ UNCHANGED <<shared, input_metadata, num_tokens, cache, out>>

\* rows lo..hi-1
RowsOf(slice) == [r \in 1..(slice[2] - slice[1]) |-> slice[1] + r - 1]

RECURSIVE TorchCat(_)
TorchCat(slices) ==
    IF slices = <<>> THEN <<>>
    ELSE RowsOf(Head(slices)) \o TorchCat(Tail(slices))

\* torch.cat(query_list, dim=0); torch.cat raises on an empty list
Cat(t) ==
    /\ UNCHANGED instance
    /\ pc[t] = "cat"
    /\ IF query_list[t] = <<>>
       THEN /\ pc' = [pc EXCEPT ![t] = "raised"]
            /\ UNCHANGED out
       ELSE /\ pc' = [pc EXCEPT ![t] = "done"]
            /\ out' = [out EXCEPT ![t] = TorchCat(query_list[t])]
    /\ UNCHANGED <<shared, input_metadata, num_tokens, i, prev, query_list,
                   cache, kernel_call, last_len>>

\* the call has returned or raised; its frame is gone
Return(t) ==
    /\ UNCHANGED instance
    /\ pc[t] \in {"done", "raised"}
    /\ pc' = [pc EXCEPT ![t] = "idle"]
    /\ input_metadata' = [input_metadata EXCEPT ![t] = NoMetadata]
    /\ num_tokens' = [num_tokens EXCEPT ![t] = 0]
    /\ i' = [i EXCEPT ![t] = 0]
    /\ prev' = [prev EXCEPT ![t] = 0]
    /\ query_list' = [query_list EXCEPT ![t] = <<>>]
    /\ kernel_call' = [kernel_call EXCEPT ![t] = NoCall]
    /\ out' = [out EXCEPT ![t] = <<>>]
    /\ UNCHANGED <<shared, cache, last_len>>

\* a forward call on a batch whose declared rows are in the buffers
Call(t, maxlen, maxbatch, maxpad) ==
    \E m \in Metadata(maxlen, maxbatch) :
        \E pad \in 0..maxpad :
            Forward(t, m, DeclaredTokens(m) + pad)

\* calls executed one at a time
CallAlone(t) ==
    /\ \A u \in Threads : pc[u] = "idle"
    /\ Call(t, MaxSeqLen, MaxBatch, MaxPad)

\* concurrent calls on the shared instance, one sample each, no padding
CallConcurrent(t) == Call(t, ConcMaxSeqLen, 1, 0)

Step(t) ==
    \/ CheckLen(t)
    \/ CheckAlpha(t)
    \/ SetLen(t)
    \/ SetAlpha(t)
    \/ Build(t)
    \/ Publish(t)
    \/ Kernel(t)
    \/ Cat(t)
    \/ Return(t)

\* ---------------------------------------------------------------------
\* forward of the static classes
\* ---------------------------------------------------------------------
PositionLists ==
    UNION {[1..n -> 0..MaxPositionEmbeddings] : n \in 0..MaxStaticTokens}

\* one rotary_embedding call on the whole buffers; input_metadata is unused
StaticForwardPerRow(positions, m) ==
    /\ status = "built"
    /\ config.variant \in StaticVariants
    /\ static_calls' = [r \in 1..Len(positions) |->
                           [lo |-> r - 1, hi |-> r,
                            positions |-> <<positions[r]>>,
                            rows |-> cos_sin_cache.rows]]
    /\ UNCHANGED <<shared, pc, locals, last_len, config, status>>
StaticForward(positions, m) ==
    /\ status = "built"
    /\ config.variant \in StaticVariants
    /\ static_calls' = <<[lo |-> 0, hi |-> Len(positions),
                          positions |-> positions,
                          rows |-> cos_sin_cache.rows]>>
    /\ UNCHANGED <<shared, pc, locals, last_len, config, status>>

CallStatic ==
    \E positions \in PositionLists :
        \E m \in Metadata(1, 1) :
            StaticForward(positions, m)

\* forward calls on an adaptive instance, one at a time, one sample each
CallBuilt(t) ==
    /\ status = "built"
    /\ config.variant = Qwen
    /\ \A u \in Threads : pc[u] = "idle"
    /\ Call(t, ConcMaxSeqLen, 1, 0)

Next ==
    \/ \E t \in Threads : CallAlone(t)
    \/ \E t \in Threads : Step(t)

Spec == Init /\ [][Next]_vars

NextConc ==
    \/ \E t \in Threads : CallConcurrent(t)
    \/ \E t \in Threads : Step(t)

SpecConc == Init /\ [][NextConc]_vars

\* an instance of any of the four classes, from its construction on
NextAny ==
    \/ \E c \in Configs : Construct(c)
    \/ CallStatic
    \/ \E t \in Threads : CallBuilt(t)
    \/ \E t \in Threads : Step(t)

SpecAny == InitNone /\ [][NextAny]_vars

\* ---------------------------------------------------------------------
\* properties
\* ---------------------------------------------------------------------
RebuildPcs == {"set_len", "set_alpha", "build", "publish"}

\* the step of call t that assigns self._seq_len_cached
RebuildStep(t) == pc[t] = "set_len" /\ pc'[t] = "set_alpha"

\* C1: with calls executed one at a time, whenever the rotation kernel is
\* invoked for a sample, cached_length and the number of rows of the
\* installed table are at least the sample's true length.
C1_TableCoversSample ==
    \A t \in Threads :
        /\ pc[t] = "kernel" =>
              /\ seq_len_cached >= seq_len(t)
              /\ cos_sin_cache.rows >= seq_len(t)
        /\ kernel_call[t] # NoCall =>
              kernel_call[t].rows >= kernel_call[t].seq_len

\* a kernel call for a sample longer than the table built at construction,
\* served by a table grown beyond the floor
C1_Witness ==
    \E t \in Threads :
        /\ kernel_call[t] # NoCall
        /\ kernel_call[t].seq_len > MaxPositionEmbeddings
        /\ kernel_call[t].rows > MinCacheLen

\* the range the driver is described to give sample k of call t
DeclaredWidth(t, k) == IF is_continue(t) THEN 1 ELSE seq_lens(t)[k]

\* C2: for a non-empty batch whose declared lengths fit in the buffers,
\* the sample ranges start at 0, each starts where the previous one ends,
\* have width seq_len (prefill) or 1 (decode) except that the last one
\* runs to the end of the buffers, and the returned rows are the input
\* rows 0..n-1 in order.
C2_RangesPartitionRows ==
    \A t \in Threads :
        (pc[t] = "done" /\ DeclaredTokens(input_metadata[t]) <= num_tokens[t]) =>
            /\ Len(query_list[t]) = batch_size(t)
            /\ query_list[t][1][1] = 0
            /\ \A k \in 1..batch_size(t) :
                  /\ query_list[t][k][1] <= query_list[t][k][2]
                  /\ k < batch_size(t) =>
                        /\ query_list[t][k][2] - query_list[t][k][1]
                             = DeclaredWidth(t, k)
                        /\ query_list[t][k + 1][1] = query_list[t][k][2]
                  /\ k = batch_size(t) =>
                        /\ query_list[t][k][2] = num_tokens[t]
                        /\ query_list[t][k][2] - query_list[t][k][1]
                             >= DeclaredWidth(t, k)
            /\ out[t] = [r \in 1..num_tokens[t] |-> r - 1]

\* a returned prefill call of two samples with padding after the last one
C2_Witness ==
    \E t \in Threads :
        /\ pc[t] = "done"
        /\ ~is_continue(t)
        /\ batch_size(t) = 2
        /\ num_tokens[t] > DeclaredTokens(input_metadata[t])
        /\ Len(out[t]) = num_tokens[t]

\* C3: with calls executed one at a time, the table handed to the kernel
\* for a sample was built with alpha(that sample's length), whatever the
\* other samples and the earlier calls were; with reference 8192 the
\* lengths 10, 200, 9999 have alpha 1, 1, 3.
C3_PerSampleAlpha ==
    /\ \A t \in Threads :
          kernel_call[t] # NoCall =>
              kernel_call[t].alpha = get_ntk_alpha(kernel_call[t].seq_len)
    /\ NtkAlpha(10, 8192) = 1
    /\ NtkAlpha(200, 8192) = 1
    /\ NtkAlpha(9999, 8192) = 3

\* the second sample of a batch is short and gets alpha 1 right after a
\* first sample of the greatest length got a larger alpha
C3_Witness ==
    \E t \in Threads :
        /\ i[t] = 3
        /\ seq_lens(t)[1] = MaxSeqLen
        /\ get_ntk_alpha(MaxSeqLen) > 1
        /\ kernel_call[t].seq_len = 1
        /\ kernel_call[t].alpha = 1

\* C4 as stated: every rebuild leaves cached_length at least as large as
\* it was before the rebuild.
C4_RebuildNeverShrinks ==
    [][\A t \in Threads :
          RebuildStep(t) => seq_len_cached' >= seq_len_cached]_vars

\* C4 amended: a rebuild whose alpha is not lower than the cached alpha
\* leaves cached_length at least as large as it was before the rebuild.
C4_RebuildShrinksOnlyWhenAlphaDrops ==
    [][\A t \in Threads :
          (RebuildStep(t) /\ ntk_alpha(t) >= ntk_alpha_cached)
              => seq_len_cached' >= seq_len_cached]_vars

\* a rebuild in progress, after an earlier one, that raises alpha and has
\* grown cached_length beyond the floor
C4_Witness ==
    \E t \in Threads :
        /\ pc[t] = "set_alpha"
        /\ last_len > 0
        /\ ntk_alpha_cached > 1
        /\ ntk_alpha(t) > ntk_alpha_cached
        /\ seq_len_cached > MinCacheLen

\* C5: when a recompute-policy call has a true_len not lower than that of
\* the call before it, it does not decrease cached_length; hence along
\* calls with non-decreasing true_len cached_length never decreases.
C5_MonotoneUnderNonDecreasingLen ==
    [][\A t \in Threads :
          (RebuildStep(t) /\ last_len <= seq_len(t))
              => seq_len_cached' >= seq_len_cached]_vars

\* a rebuild in progress for a sample longer than the previous one, with
\* cached_length grown beyond the floor
C5_Witness ==
    \E t \in Threads :
        /\ pc[t] = "set_alpha"
        /\ last_len > 0
        /\ last_len < seq_len(t)
        /\ seq_len_cached = 2 * seq_len(t)
        /\ seq_len_cached > MinCacheLen

\* C6: a recompute-policy call with the same true_len as the call right
\* before it does not rebuild and leaves cached_length, cached_alpha and
\* the table unchanged.
C6_SecondCallReuses ==
    [][\A t \in Threads :
          (pc[t] \in {"check_len", "check_alpha"} /\ last_len = seq_len(t))
              => /\ pc'[t] \in {"check_len", "check_alpha", "kernel"}
                 /\ UNCHANGED shared]_vars

\* the policy has run for the second sample of a batch whose two samples
\* have the same length, one that needed a rebuild
C6_Witness ==
    \E t \in Threads :
        /\ pc[t] = "kernel"
        /\ i[t] = 2
        /\ seq_lens(t)[1] = seq_len(t)
        /\ last_len = seq_len(t)
        /\ ntk_alpha(t) > 1
        /\ ntk_alpha_cached = ntk_alpha(t)

EmptyBatch(t) ==
    /\ Len(input_metadata[t].prompt_lens) = 0
    /\ Len(input_metadata[t].context_lens) = 0

BothPopulated(t) ==
    /\ Len(input_metadata[t].prompt_lens) > 0
    /\ Len(input_metadata[t].context_lens) > 0

\* C7 as stated: a forward call on an empty batch does not raise and
\* returns empty buffers.
C7_EmptyBatchIsNoOp ==
    \A t \in Threads :
        (pc[t] # "idle" /\ EmptyBatch(t)) =>
            /\ pc[t] # "raised"
            /\ pc[t] = "done" => out[t] = <<>>

\* C8 as stated: a forward call whose metadata has both lists populated,
\* or neither, is rejected: it reaches no recompute step and no kernel
\* call and does not return a result.
C8_RejectsAmbiguousMetadata ==
    \A t \in Threads :
        (pc[t] # "idle" /\ (BothPopulated(t) \/ EmptyBatch(t))) =>
            pc[t] \notin RebuildPcs \cup {"check_len", "check_alpha", "kernel", "done"}

\* C9 as stated: once a rebuild has begun, a concurrent call that reads
\* the cache state never finds cached_length / cached_alpha describing a
\* table other than the installed one.
C9_AtomicPublish ==
    \A u \in Threads :
        (pc[u] \in {"check_len", "check_alpha", "kernel"} /\ seq_len_cached # 0) =>
            /\ seq_len_cached = cos_sin_cache.rows
            /\ ntk_alpha_cached = cos_sin_cache.alpha

\* C10 as stated: under concurrent calls every kernel invocation uses a
\* table with at least the sample's true length in rows, built with
\* alpha(the sample's length).
C10_SynchronizedUse ==
    \A t \in Threads :
        kernel_call[t] # NoCall =>
            /\ kernel_call[t].rows >= kernel_call[t].seq_len
            /\ kernel_call[t].alpha = get_ntk_alpha(kernel_call[t].seq_len)

\* C11: once a static instance is built, no step changes its table or
\* its configuration, and a forward call makes exactly one kernel call,
\* on the whole buffers (rows 0..n-1, all the positions) with that table.
C11_StaticCacheFixedSingleCall ==
    [][(status = "built" /\ config.variant \in StaticVariants) =>
          /\ cos_sin_cache' = cos_sin_cache
          /\ status' = "built"
          /\ config' = config
          /\ \/ static_calls' = static_calls
             \/ /\ Len(static_calls') = 1
                /\ static_calls'[1].lo = 0
                /\ static_calls'[1].hi = Len(static_calls'[1].positions)
                /\ static_calls'[1].rows = cos_sin_cache.rows]_vars

\* a linear-scaling instance after a forward call on the most rows
C11_Witness ==
    /\ status = "built"
    /\ config.variant = Linear
    /\ Len(static_calls) = 1
    /\ static_calls[1].hi = MaxStaticTokens
    /\ static_calls[1].rows = cos_sin_cache.rows

\* C12 as stated: an NTK-based instance (fixed or adaptive) with
\* rotary_dim = 2 is rejected by its constructor.
C12_NtkRotaryDim2Rejected ==
    (status # "none" /\ config.variant \in {Ntk, Qwen} /\ config.rotary_dim = 2)
        => status = "failed"

InvalidConfig(c) ==
    \/ c.rotary_dim % 2 # 0
    \/ c.rotary_dim < 2
    \/ c.variant \in {Linear, Ntk} /\ c.scaling_factor <= 0
    \/ c.variant = Qwen /\ c.seq_length <= 0
    \/ c.max_position_embeddings <= 0

\* C13 as stated: a constructor given rotary_dim odd or < 2,
\* scaling_factor <= 0, a reference length <= 0 or
\* max_position_embeddings <= 0 fails and no cache is built.
C13_InvalidConfigRejected ==
    (status # "none" /\ InvalidConfig(config)) =>
        /\ status = "failed"
        /\ cos_sin_cache = NoCache

\* C14 as stated: every position a static forward passes to the kernel is
\* below the number of rows of the table.
C14_StaticPositionsInRange ==
    \A k \in 1..Len(static_calls) :
        \A r \in 1..Len(static_calls[k].positions) :
            static_calls[k].positions[r] < static_calls[k].rows

RebuildNeeded(t) ==
    \/ seq_len(t) > seq_len_cached
    \/ get_ntk_alpha(seq_len(t)) # ntk_alpha_cached

\* C15: a recompute-policy call rebuilds exactly when true_len exceeds
\* cached_length or alpha(true_len) differs from cached_alpha; a rebuild
\* ends with cached_length = max(2 * true_len, 16), cached_alpha =
\* alpha(true_len) and a table of cached_length rows built with that
\* alpha; a call that does not rebuild changes none of the three.
C15_RecomputePolicyStep ==
    [][\A t \in Threads :
          /\ (pc[t] \in {"check_len", "check_alpha"} /\ pc'[t] = "set_len")
                => RebuildNeeded(t)
          /\ (pc[t] = "check_len" /\ pc'[t] = "check_alpha")
                => UNCHANGED shared
          /\ (pc[t] = "check_alpha" /\ pc'[t] = "kernel")
                => (~RebuildNeeded(t) /\ UNCHANGED shared)
          /\ (pc[t] = "publish" /\ pc'[t] = "kernel")
                => /\ seq_len_cached' = Max(2 * seq_len(t), 16)
                   /\ ntk_alpha_cached' = get_ntk_alpha(seq_len(t))
                   /\ cos_sin_cache'.rows = seq_len_cached'
                   /\ cos_sin_cache'.alpha = ntk_alpha_cached']_vars

\* the policy has rebuilt for the first sample of a call, to twice its
\* length, above the floor
C15_Witness ==
    \E t \in Threads :
        /\ pc[t] = "kernel"
        /\ i[t] = 1
        /\ cos_sin_cache.rows = 2 * seq_len(t)
        /\ cos_sin_cache.rows > 16
        /\ seq_len_cached = cos_sin_cache.rows

ExpRange == MaxSeqLen + ConfigSeqLength

\* k >= log2(true_len / ref) + 1, in integers
CoversContext(k, true_len, ref) ==
    IF k >= 1 THEN ref * (2 ^ (k - 1)) >= true_len
    ELSE ref >= true_len * (2 ^ (1 - k))

\* max(1, 2^ceil(log2(true_len / ref) + 1) - 1)
AlphaFormula(true_len, ref) ==
    LET k == CHOOSE k \in (0 - ExpRange)..ExpRange :
                 /\ CoversContext(k, true_len, ref)
                 /\ \A j \in (0 - ExpRange)..(k - 1) :
                        ~CoversContext(j, true_len, ref)
    IN  IF k >= 1 THEN (2 ^ k) - 1 ELSE 1

\* C16: the alpha computed for a sample equals
\* max(1, 2^ceil(log2(true_len / reference) + 1) - 1), is 1 up to the
\* reference length, is of the form 2^k - 1, is not below the alpha of any
\* shorter length, and is what a rebuild stores; with reference 8192 it is
\* 1, 3, 3, 7 at 8192, 8193, 16384, 32768.
C16_AlphaFunction ==
    /\ \A t \in Threads :
          pc[t] \in {"check_alpha", "set_len", "set_alpha", "build",
                     "publish", "kernel"} =>
              /\ ntk_alpha(t) = AlphaFormula(seq_len(t), config.seq_length)
              /\ seq_len(t) <= config.seq_length => ntk_alpha(t) = 1
              /\ \E k \in 1..ExpRange : ntk_alpha(t) = (2 ^ k) - 1
              /\ \A n \in 1..seq_len(t) : get_ntk_alpha(n) <= ntk_alpha(t)
              /\ pc[t] \in {"build", "publish"} =>
                    ntk_alpha_cached
                        = AlphaFormula(seq_len(t), config.seq_length)
    /\ NtkAlpha(8192, 8192) = 1
    /\ NtkAlpha(8193, 8192) = 3
    /\ NtkAlpha(16384, 8192) = 3
    /\ NtkAlpha(32768, 8192) = 7

\* a rebuild has stored the alpha of a sample of exactly twice the
\* reference length
C16_Witness ==
    \E t \in Threads :
        /\ pc[t] = "build"
        /\ seq_len(t) = 2 * config.seq_length
        /\ ntk_alpha_cached = 3

ValidConfig(c) ==
    /\ c.rotary_dim % 2 = 0
    /\ c.rotary_dim >= 2
    /\ c.variant = Ntk => c.rotary_dim # 2
    /\ c.scaling_factor > 0
    /\ c.max_position_embeddings > 0

\* C17: for a valid configuration the baseline table has
\* max_position_embeddings rows, and the linear-scaling and fixed
\* dynamic-NTK tables have max_position_embeddings x scaling_factor rows
\* when that product is integral.
C17_StaticTableLength ==
    (status # "none" /\ config.variant \in StaticVariants /\ ValidConfig(config)) =>
        /\ status = "built"
        /\ config.variant = Base =>
              cos_sin_cache.rows = config.max_position_embeddings
        /\ (/\ config.variant \in {Linear, Ntk}
            /\ (config.max_position_embeddings * config.scaling_factor)
                  % ScalingDen = 0) =>
              cos_sin_cache.rows * ScalingDen
                  = config.max_position_embeddings * config.scaling_factor

\* a fixed dynamic-NTK instance with a fractional scaling factor above 1
\* and an integral product
C17_Witness ==
    /\ status = "built"
    /\ config.variant = Ntk
    /\ ValidConfig(config)
    /\ config.scaling_factor > ScalingDen
    /\ config.scaling_factor % ScalingDen # 0
    /\ (config.max_position_embeddings * config.scaling_factor) % ScalingDen = 0
    /\ cos_sin_cache.rows > config.max_position_embeddings

MetadataDescribesTable ==
    /\ seq_len_cached = cos_sin_cache.rows
    /\ ntk_alpha_cached = cos_sin_cache.alpha

\* C18 as stated: with one caller at a time, whenever no rebuild is in
\* progress (the state right after construction included) cached_length
\* is the number of rows of the installed table and cached_alpha its alpha.
C18_MetadataAlwaysDescribesTable ==
    (\A t \in Threads : pc[t] \notin RebuildPcs) => MetadataDescribesTable

\* C18 amended: with one caller at a time and no rebuild in progress,
\* the metadata describes the installed table once a rebuild has been
\* made; until then cached_length is 0 and cached_alpha is 1 while the
\* installed table has max_position_embeddings rows of the unscaled base.
C18_MetadataDescribesTableOnceRebuilt ==
    (\A t \in Threads : pc[t] \notin RebuildPcs) =>
        IF seq_len_cached = 0
        THEN /\ ntk_alpha_cached = 1
             /\ cos_sin_cache = [rows |-> config.max_position_embeddings,
                                 alpha |-> 1]
             /\ last_len = 0
        ELSE MetadataDescribesTable

\* between two calls, after a rebuild that grew the table beyond the
\* floor with an alpha above 1
C18_Witness ==
    /\ \A t \in Threads : pc[t] = "idle"
    /\ seq_len_cached > MinCacheLen
    /\ ntk_alpha_cached > 1
    /\ MetadataDescribesTable

====
